---- MODULE Spec2Model ----
(***************************************************************************)
(* A model of the Tiny BASIC interpreter of src/tiny_basic.py.             *)
(*                                                                         *)
(* Text is a sequence of tokens.  A token is a string standing for one     *)
(* character (a digit, a letter, an operator, a blank, a newline) or for   *)
(* one whole word (a keyword, a file name).  The interpreter's own string  *)
(* handling (strip, split, the regular expressions, upper, replace) is     *)
(* modelled on these sequences.  Python's eval is modelled for the         *)
(* arithmetic subset  + - * / ( )  unary sign, decimal literals, names     *)
(* and calls; the relational characters reach it only through             *)
(* eval_condition, which splits them away first.                           *)
(***************************************************************************)
EXTENDS Integers, Sequences, FiniteSets, TLC

\* ---------------------------------------------------------------- bounds
MaxInputs == 3      \* lines the driver types in one session
MaxSteps  == 9      \* loop iterations (RUN and LOAD) after one command
MaxDepth  == 2      \* nested execute_program / cmd_load calls before
                    \* the host reports "maximum recursion depth exceeded"
MaxDiv    == 9      \* operands of a division tried: -MaxDiv..MaxDiv

\* ---------------------------------------------------------------- text
\* the value of Op at v, with v evaluated once: the host language passes
\* arguments and binds local names by value
ByValue(v, Op(_)) == CHOOSE r \in {Op(x) : x \in {v}} : TRUE

Letters == {"A","B","C","D","E","F","G","H","I","J","K","L","M",
            "N","O","P","Q","R","S","T","U","V","W","X","Y","Z"}

Digits == {"0","1","2","3","4","5","6","7","8","9"}

DigitVal(d) ==
  CASE d = "0" -> 0 [] d = "1" -> 1 [] d = "2" -> 2 [] d = "3" -> 3
    [] d = "4" -> 4 [] d = "5" -> 5 [] d = "6" -> 6 [] d = "7" -> 7
    [] d = "8" -> 8 [] d = "9" -> 9

DigitChar(n) ==
  CASE n = 0 -> "0" [] n = 1 -> "1" [] n = 2 -> "2" [] n = 3 -> "3"
    [] n = 4 -> "4" [] n = 5 -> "5" [] n = 6 -> "6" [] n = 7 -> "7"
    [] n = 8 -> "8" [] n = 9 -> "9"

IsSpace(t) == t \in {" ", "\n"}

\* str.upper(), one token at a time
Upper(t) ==
  CASE t = "a" -> "A" [] t = "b" -> "B"
    [] t = "print" -> "PRINT" [] t = "if" -> "IF" [] t = "then" -> "THEN"
    [] OTHER -> t

UpperSeq(s) == [i \in 1..Len(s) |-> Upper(s[i])]

\* number of leading / trailing whitespace tokens
RECURSIVE LeadSpaces(_)
LeadSpaces(s) ==
  IF s # <<>> /\ IsSpace(s[1]) THEN 1 + LeadSpaces(Tail(s)) ELSE 0

RECURSIVE TrailSpaces(_)
TrailSpaces(s) ==
  IF s # <<>> /\ IsSpace(s[Len(s)])
  THEN 1 + TrailSpaces(SubSeq(s, 1, Len(s) - 1)) ELSE 0

\* str.strip()
Strip(s) ==
  IF LeadSpaces(s) = Len(s) THEN <<>>
  ELSE SubSeq(s, LeadSpaces(s) + 1, Len(s) - TrailSpaces(s))

\* number of leading digit tokens: the group (\d+) of the regular expression
RECURSIVE LeadDigits(_)
LeadDigits(s) ==
  IF s # <<>> /\ s[1] \in Digits THEN 1 + LeadDigits(Tail(s)) ELSE 0

\* int() of a run of digits
RECURSIVE ParseInt(_)
ParseInt(ds) ==
  IF ds = <<>> THEN 0
  ELSE 10 * ParseInt(SubSeq(ds, 1, Len(ds) - 1)) + DigitVal(ds[Len(ds)])

\* str() of a non-negative integer, as the f-strings of LIST and SAVE use it
RECURSIVE IntToStr(_)
IntToStr(n) ==
  IF n < 10 THEN <<DigitChar(n)>>
  ELSE Append(IntToStr(n \div 10), DigitChar(n % 10))

\* str.split(maxsplit=1): the first word and the rest after the blanks
FirstWordLen(s) ==
  IF \E i \in 1..Len(s) : IsSpace(s[i])
  THEN (CHOOSE i \in 1..Len(s) :
          IsSpace(s[i]) /\ \A j \in 1..(i-1) : ~IsSpace(s[j])) - 1
  ELSE Len(s)

SplitCommand(stmt) ==
  ByValue(SubSeq(stmt, LeadSpaces(stmt) + 1, Len(stmt)), LAMBDA s :
    ByValue(FirstWordLen(s), LAMBDA w :
      ByValue(SubSeq(s, w + 1, Len(s)), LAMBDA r :
        [command |-> UpperSeq(SubSeq(s, 1, w)),
         arg     |-> SubSeq(r, LeadSpaces(r) + 1, Len(r))])))

\* first position at which the token sequence pat occurs in s, 0 if none
Find(pat, s) ==
  LET hits == {i \in 1..(Len(s) - Len(pat) + 1) :
                 SubSeq(s, i, i + Len(pat) - 1) = pat}
  IN  IF hits = {} THEN 0
      ELSE CHOOSE i \in hits : \A j \in hits : i <= j

\* ---------------------------------------------------------------- eval
\* Python list indexing, list[i]: negative i counts from the end; an index
\* outside -len..len-1 raises IndexError.  The list is a 1-based sequence.
PyIndexOk(list, i) == -Len(list) <= i /\ i < Len(list)
PyIndex(list, i) == IF i >= 0 THEN list[i + 1] ELSE list[Len(list) + i + 1]

\* division that truncates toward zero, as C's / does
TruncDiv(a, b) ==
  LET q == (IF a >= 0 THEN a ELSE 0 - a) \div (IF b >= 0 THEN b ELSE 0 - b)
  IN  IF (a >= 0) = (b >= 0) THEN q ELSE 0 - q

\* Python's a // b for b # 0: the floor of the exact quotient
FloorDiv(a, b) == IF b > 0 THEN a \div b ELSE (0 - a) \div (0 - b)

\* expr_str.replace('/', '//')
ReplaceSlash(s) == [i \in 1..Len(s) |-> IF s[i] = "/" THEN "//" ELSE s[i]]

OpChars == {"+", "-", "*", "//", "(", ")", "=", "<", ">"}

RECURSIVE LeadWord(_)
LeadWord(s) ==
  IF s # <<>> /\ ~IsSpace(s[1]) /\ s[1] \notin OpChars
  THEN 1 + LeadWord(Tail(s)) ELSE 0

\* the host tokenizer: numbers, names and operators; t = "bad" is a word
\* that is neither a decimal literal nor one of the names A..Z
WordLexeme(w) ==
  IF \A i \in 1..Len(w) : w[i] \in Digits
  THEN IF Len(w) > 1 /\ w[1] = "0" /\ ParseInt(w) # 0
       THEN [t |-> "bad", n |-> 0, s |-> ""]
       ELSE [t |-> "num", n |-> ParseInt(w), s |-> ""]
  ELSE IF Len(w) = 1 /\ w[1] \in Letters
       THEN [t |-> "name", n |-> 0, s |-> w[1]]
       ELSE [t |-> "bad", n |-> 0, s |-> ""]

RECURSIVE Lex(_)
Lex(s) ==
  IF s = <<>> THEN <<>>
  ELSE IF IsSpace(s[1]) THEN Lex(Tail(s))
  ELSE IF s[1] \in OpChars
       THEN <<[t |-> "op", n |-> 0, s |-> s[1]]>> \o Lex(Tail(s))
  ELSE <<WordLexeme(SubSeq(s, 1, LeadWord(s)))>>
         \o Lex(SubSeq(s, LeadWord(s) + 1, Len(s)))

\* values of the evaluation: an integer, an array accessor (fn), or a raised
\* exception (~ok); i is the position of the next unread lexeme
ErrV(i)    == [ok |-> FALSE, fn |-> FALSE, n |-> 0, name |-> "", i |-> i]
IntV(n, i) == [ok |-> TRUE,  fn |-> FALSE, n |-> n, name |-> "", i |-> i]
FnV(a, i)  == [ok |-> TRUE,  fn |-> TRUE,  n |-> 0, name |-> a,  i |-> i]

IsOp(lx, i, s) == i <= Len(lx) /\ lx[i].t = "op" /\ lx[i].s = s

\* array_accessor: self.arrays[n][int(idx)], IndexError turned into an error
ArrayAccessor(arrs, name, idx, i) ==
  IF PyIndexOk(arrs[name], idx) THEN IntV(PyIndex(arrs[name], idx), i)
  ELSE ErrV(i)

\* local_vars[name]: the accessor when the letter is in self.arrays, else
\* the scalar
LocalVar(env, name, i) ==
  IF name \in DOMAIN env.arrays THEN FnV(name, i)
  ELSE IntV(env.variables[name], i)

BinOp(op, a0, b0) ==
  ByValue(a0, LAMBDA a : ByValue(b0, LAMBDA b :
    IF ~a.ok \/ ~b.ok \/ a.fn \/ b.fn THEN ErrV(b.i)
    ELSE CASE op = "+"  -> IntV(a.n + b.n, b.i)
           [] op = "-"  -> IntV(a.n - b.n, b.i)
           [] op = "*"  -> IntV(a.n * b.n, b.i)
           [] op = "//" -> IF b.n = 0 THEN ErrV(b.i)
                           ELSE IntV(FloorDiv(a.n, b.n), b.i)))

Negate(a0) ==
  ByValue(a0, LAMBDA a :
    IF ~a.ok \/ a.fn THEN ErrV(a.i) ELSE IntV(0 - a.n, a.i))

Plus(a0) ==
  ByValue(a0, LAMBDA a : IF ~a.ok \/ a.fn THEN ErrV(a.i) ELSE a)

Call(env, f, arg0) ==
  ByValue(arg0, LAMBDA arg :
    IF ~f.ok \/ ~arg.ok \/ ~f.fn \/ arg.fn THEN ErrV(arg.i)
    ELSE ArrayAccessor(env.arrays, f.name, arg.n, arg.i))

RECURSIVE ParseExpr(_, _, _), ExprLoop(_, _, _), ParseTerm(_, _, _),
          TermLoop(_, _, _), ParseFactor(_, _, _), ParseAtom(_, _, _),
          TrailerLoop(_, _, _)

ParseExpr(env, lx, i) == ExprLoop(env, lx, ParseTerm(env, lx, i))

ExprLoop(env, lx, acc0) ==
  ByValue(acc0, LAMBDA acc :
    IF ~acc.ok THEN acc
    ELSE IF IsOp(lx, acc.i, "+") \/ IsOp(lx, acc.i, "-")
         THEN ExprLoop(env, lx,
                BinOp(lx[acc.i].s, acc, ParseTerm(env, lx, acc.i + 1)))
         ELSE acc)

ParseTerm(env, lx, i) == TermLoop(env, lx, ParseFactor(env, lx, i))

TermLoop(env, lx, acc0) ==
  ByValue(acc0, LAMBDA acc :
    IF ~acc.ok THEN acc
    ELSE IF IsOp(lx, acc.i, "*") \/ IsOp(lx, acc.i, "//")
         THEN TermLoop(env, lx,
                BinOp(lx[acc.i].s, acc, ParseFactor(env, lx, acc.i + 1)))
         ELSE acc)

ParseFactor(env, lx, i) ==
  IF IsOp(lx, i, "-") THEN Negate(ParseFactor(env, lx, i + 1))
  ELSE IF IsOp(lx, i, "+") THEN Plus(ParseFactor(env, lx, i + 1))
  ELSE TrailerLoop(env, lx, ParseAtom(env, lx, i))

ParseAtom(env, lx, i) ==
  IF i > Len(lx) THEN ErrV(i)
  ELSE IF lx[i].t = "num" THEN IntV(lx[i].n, i + 1)
  ELSE IF lx[i].t = "name" THEN LocalVar(env, lx[i].s, i + 1)
  ELSE IF IsOp(lx, i, "(")
       THEN ByValue(ParseExpr(env, lx, i + 1), LAMBDA e :
              IF e.ok /\ IsOp(lx, e.i, ")") THEN [e EXCEPT !.i = e.i + 1]
              ELSE ErrV(e.i))
  ELSE ErrV(i)

TrailerLoop(env, lx, acc0) ==
  ByValue(acc0, LAMBDA acc :
    IF ~acc.ok THEN acc
    ELSE IF IsOp(lx, acc.i, "(")
         THEN ByValue(ParseExpr(env, lx, acc.i + 1), LAMBDA a :
                IF a.ok /\ IsOp(lx, a.i, ")")
                THEN TrailerLoop(env, lx,
                       Call(env, acc, [a EXCEPT !.i = a.i + 1]))
                ELSE ErrV(a.i))
         ELSE acc)

\* eval_expression: [ok, n]; ~ok is the RuntimeError it raises
EvalExpression(env, expr_str) ==
  ByValue(ReplaceSlash(UpperSeq(ByValue(expr_str, LAMBDA e : Strip(e)))),
    LAMBDA s :
    IF s = <<>> THEN [ok |-> TRUE, n |-> 0]
    ELSE ByValue(Lex(s), LAMBDA lx :
           ByValue(ParseExpr(env, lx, 1), LAMBDA r :
             IF r.ok /\ ~r.fn /\ r.i = Len(lx) + 1
             THEN [ok |-> TRUE, n |-> r.n]
             ELSE [ok |-> FALSE, n |-> 0])))

\* eval_condition: [ok, b]; ~ok is a raised exception
RelOps == << <<">", "=">>, <<"<", "=">>, <<"<", ">">>, <<">">>, <<"<">>, <<"=">> >>

Compare(op, l, r) ==
  CASE op = <<">", "=">> -> l >= r
    [] op = <<"<", "=">> -> l <= r
    [] op = <<"<", ">">> -> l # r
    [] op = <<">">>      -> l > r
    [] op = <<"<">>      -> l < r
    [] op = <<"=">>      -> l = r

EvalCondition(env, condition_str0) ==
  ByValue(condition_str0, LAMBDA condition_str :
  ByValue({k \in 1..Len(RelOps) : Find(RelOps[k], condition_str) > 0},
    LAMBDA found :
    IF found = {} THEN [ok |-> FALSE, b |-> FALSE]
    ELSE
      ByValue(RelOps[CHOOSE x \in found : \A y \in found : x <= y],
        LAMBDA op :
      ByValue(Find(op, condition_str), LAMBDA at :
      ByValue(EvalExpression(env, SubSeq(condition_str, 1, at - 1)),
        LAMBDA lval :
      ByValue(EvalExpression(env,
                SubSeq(condition_str, at + Len(op), Len(condition_str))),
        LAMBDA rval :
          IF lval.ok /\ rval.ok
          THEN [ok |-> TRUE, b |-> Compare(op, lval.n, rval.n)]
          ELSE [ok |-> FALSE, b |-> FALSE]))))))

\* ---------------------------------------------------------------- store
\* self.program is a dict: a sequence of [num, code] entries in insertion
\* order, with at most one entry per key
DictHas(p, n) == \E i \in 1..Len(p) : p[i].num = n
DictGet(p, n) == p[CHOOSE i \in 1..Len(p) : p[i].num = n].code
DictSet(p, n, c) ==
  IF DictHas(p, n)
  THEN [i \in 1..Len(p) |-> IF p[i].num = n THEN [num |-> n, code |-> c]
                            ELSE p[i]]
  ELSE Append(p, [num |-> n, code |-> c])
DictDel(p, n) == SelectSeq(p, LAMBDA e : e.num # n)
Keys(p) == [i \in 1..Len(p) |-> p[i].num]

\* sorted(): insertion of each element into an ascending sequence
RECURSIVE Insert(_, _)
Insert(x, s) ==
  IF s = <<>> THEN <<x>>
  ELSE IF x <= s[1] THEN <<x>> \o s
  ELSE <<s[1]>> \o Insert(x, Tail(s))

\* sorted() left out: the keys in the dict's insertion order
Unsorted(s) == s

RECURSIVE Sorted(_)
Sorted(s) == IF s = <<>> THEN <<>> ELSE Insert(s[1], Sorted(Tail(s)))

\* list.index(x): the 0-based position of x, -1 standing for ValueError
Index(lines, x) ==
  IF \E i \in 1..Len(lines) : lines[i] = x
  THEN (CHOOSE i \in 1..Len(lines) :
          lines[i] = x /\ \A j \in 1..(i-1) : lines[j] # x) - 1
  ELSE -1

\* ---------------------------------------------------------------- output
\* one printed line: what was printed (ev), the number in it (n) and the
\* text in it (code)
Event(ev, n, code) == [ev |-> ev, n |-> n, code |-> code]
Emit(m, ev, n, code) == [m EXCEPT !.out = Append(@, Event(ev, n, code))]

\* results of a statement: the interpreter after it, whether it raised,
\* and the call it makes into execute_program or cmd_load
Done(m)         == [m |-> m, exc |-> FALSE, call |-> "none", arg |-> <<>>]
Raise(m)        == [m |-> m, exc |-> TRUE,  call |-> "none", arg |-> <<>>]
CallOf(m, c, a) == [m |-> m, exc |-> FALSE, call |-> c, arg |-> a]

Env(m) == [variables |-> m.variables, arrays |-> m.arrays]

\* ---------------------------------------------------------------- commands
\* cmd_new with self.arrays.clear() left out
CmdNewKeepsArrays(m) ==
  [m EXCEPT !.program = <<>>,
            !.variables = [l \in Letters |-> 0]]

CmdNew(m) ==
  [m EXCEPT !.program = <<>>,
            !.variables = [l \in Letters |-> 0],
            !.arrays = <<>>]

RECURSIVE ListLines(_, _, _)
ListLines(m, keys, ev) ==
  IF keys = <<>> THEN m
  ELSE ListLines(Emit(m, ev, keys[1], DictGet(m.program, keys[1])),
                 Tail(keys), ev)

CmdList(m) == ListLines(m, Sorted(Keys(m.program)), "list")

\* FileLines with the "\n" of the write forgotten: the file is one line
RECURSIVE Joined(_, _)
Joined(p, keys) ==
  IF keys = <<>> THEN <<>>
  ELSE IntToStr(keys[1]) \o <<" ">> \o DictGet(p, keys[1])
         \o Joined(p, Tail(keys))

FileLinesNoNewline(p, keys) ==
  IF keys = <<>> THEN <<>> ELSE <<Joined(p, keys)>>

\* the lines SAVE writes: "<line_num> <code>\n" for each key in sorted order
RECURSIVE FileLines(_, _)
FileLines(p, keys) ==
  IF keys = <<>> THEN <<>>
  ELSE <<IntToStr(keys[1]) \o <<" ">> \o DictGet(p, keys[1]) \o <<"\n">> >>
         \o FileLines(p, Tail(keys))

CmdSave(m, filename) ==
  IF filename = <<>> THEN Emit(m, "save_usage", 0, <<>>)
  ELSE Emit([m EXCEPT !.disk =
               [f \in DOMAIN m.disk \cup {filename} |->
                  IF f = filename
                  THEN FileLines(m.program, Sorted(Keys(m.program)))
                  ELSE m.disk[f]]],
            "saved", 0, filename)

CmdPrint(m, arg) ==
  ByValue(EvalExpression(Env(m), arg), LAMBDA val :
    IF val.ok THEN Done(Emit(m, "print", val.n, <<>>)) ELSE Raise(m))

\* the regular expression ^([A-Z])\((.+)\)$
IsArrayForm(s) ==
  Len(s) >= 4 /\ s[1] \in Letters /\ s[2] = "(" /\ s[Len(s)] = ")"

\* cmd_let with the lower bound of the index check left out, as in
\* array_accessor: a negative index then writes from the end of the list
CmdLetNoLowerBound(m, arg) ==
  IF Find(<<"=">>, arg) = 0 THEN Done(Emit(m, "let_syntax", 0, <<>>))
  ELSE
    LET at        == Find(<<"=">>, arg)
        var_name  == UpperSeq(Strip(SubSeq(arg, 1, at - 1)))
        expr_part == SubSeq(arg, at + 1, Len(arg))
        val       == EvalExpression(Env(m), expr_part)
        name      == var_name[1]
        idx       == EvalExpression(Env(m), SubSeq(var_name, 3, Len(var_name) - 1))
        pos       == IF idx.n >= 0 THEN idx.n + 1
                     ELSE Len(m.arrays[name]) + idx.n + 1
    IN  IF ~val.ok THEN Raise(m)
        ELSE IF IsArrayForm(var_name)
             THEN IF ~idx.ok THEN Raise(m)
                  ELSE IF name \in DOMAIN m.arrays
                       THEN IF PyIndexOk(m.arrays[name], idx.n)
                            THEN Done([m EXCEPT !.arrays[name][pos] = val.n])
                            ELSE Raise(m)
                       ELSE Raise(m)
        ELSE IF Len(var_name) = 1 /\ var_name[1] \in Letters
             THEN Done([m EXCEPT !.variables[name] = val.n])
        ELSE Raise(m)

CmdLet(m, arg) ==
  IF Find(<<"=">>, arg) = 0 THEN Done(Emit(m, "let_syntax", 0, <<>>))
  ELSE
    LET at        == Find(<<"=">>, arg)
        expr_part == SubSeq(arg, at + 1, Len(arg))
    IN
    ByValue(UpperSeq(Strip(SubSeq(arg, 1, at - 1))), LAMBDA var_name :
    ByValue(EvalExpression(Env(m), expr_part), LAMBDA val :
      IF ~val.ok THEN Raise(m)
      ELSE IF IsArrayForm(var_name)
           THEN ByValue(EvalExpression(Env(m),
                          SubSeq(var_name, 3, Len(var_name) - 1)),
                  LAMBDA idx :
                  IF ~idx.ok THEN Raise(m)
                  ELSE IF var_name[1] \in DOMAIN m.arrays
                       THEN IF /\ 0 <= idx.n
                               /\ idx.n < Len(m.arrays[var_name[1]])
                            THEN Done([m EXCEPT
                                   !.arrays[var_name[1]][idx.n + 1] = val.n])
                            ELSE Raise(m)
                       ELSE Raise(m))
      ELSE IF Len(var_name) = 1 /\ var_name[1] \in Letters
           THEN Done([m EXCEPT !.variables[var_name[1]] = val.n])
      ELSE Raise(m)))

\* [0] * k
Zeros(k) == [i \in 1..k |-> 0]

\* cmd_dim allocating [0] * size: indices 0..size-1
CmdDimOneShort(m, arg) ==
  ByValue(UpperSeq(Strip(arg)), LAMBDA a :
    IF IsArrayForm(a)
    THEN ByValue(EvalExpression(Env(m), SubSeq(a, 3, Len(a) - 1)),
           LAMBDA size :
           IF ~size.ok THEN Raise(m)
           ELSE Done([m EXCEPT !.arrays =
                  [l \in DOMAIN m.arrays \cup {a[1]} |->
                     IF l = a[1] THEN Zeros(size.n) ELSE m.arrays[l]]]))
    ELSE Raise(m))

CmdDim(m, arg) ==
  ByValue(UpperSeq(Strip(arg)), LAMBDA a :
    IF IsArrayForm(a)
    THEN ByValue(EvalExpression(Env(m), SubSeq(a, 3, Len(a) - 1)),
           LAMBDA size :
           IF ~size.ok THEN Raise(m)
           ELSE Done([m EXCEPT !.arrays =
                  [l \in DOMAIN m.arrays \cup {a[1]} |->
                     IF l = a[1] THEN Zeros(size.n + 1) ELSE m.arrays[l]]]))
    ELSE Raise(m))

\* execute_statement with an unknown command raising after its message
ExecuteStatementUnknownRaises(m, stmt0) ==
  ByValue(Strip(stmt0), LAMBDA stmt :
  ByValue(SplitCommand(stmt), LAMBDA parts :
  LET command == parts.command
      arg     == parts.arg
  IN  IF stmt = <<>> THEN Done(m)
      ELSE CASE command = <<"PRINT">> -> CmdPrint(m, arg)
             [] command = <<"LET">>   -> CmdLet(m, arg)
             [] command = <<"GOTO">>  -> Raise(m)
             [] command = <<"IF">>    -> Raise(m)
             [] command = <<"DIM">>   -> CmdDim(m, arg)
             [] command = <<"END">>   -> Done(m)
             [] command = <<"RUN">>   -> CallOf(m, "run", <<>>)
             [] command = <<"LIST">>  -> Done(CmdList(m))
             [] command = <<"NEW">>   -> Done(CmdNew(m))
             [] command = <<"LOAD">>  -> CallOf(m, "load", arg)
             [] command = <<"SAVE">>  -> Done(CmdSave(m, arg))
             [] command = <<"QUIT">>  -> Done([m EXCEPT !.running = FALSE])
             [] OTHER -> Raise(Emit(m, "unknown", 0, command))))

\* execute_statement taking a direct GOTO as a request to run, and a direct
\* IF as nothing to do
ExecuteStatementDirectJump(m, stmt0) ==
  ByValue(Strip(stmt0), LAMBDA stmt :
  ByValue(SplitCommand(stmt), LAMBDA parts :
  LET command == parts.command
      arg     == parts.arg
  IN  IF stmt = <<>> THEN Done(m)
      ELSE CASE command = <<"PRINT">> -> CmdPrint(m, arg)
             [] command = <<"LET">>   -> CmdLet(m, arg)
             [] command = <<"GOTO">>  -> CallOf(m, "run", <<>>)
             [] command = <<"IF">>    -> Done(m)
             [] command = <<"DIM">>   -> CmdDim(m, arg)
             [] command = <<"END">>   -> Done(m)
             [] command = <<"RUN">>   -> CallOf(m, "run", <<>>)
             [] command = <<"LIST">>  -> Done(CmdList(m))
             [] command = <<"NEW">>   -> Done(CmdNew(m))
             [] command = <<"LOAD">>  -> CallOf(m, "load", arg)
             [] command = <<"SAVE">>  -> Done(CmdSave(m, arg))
             [] command = <<"QUIT">>  -> Done([m EXCEPT !.running = FALSE])
             [] OTHER -> Done(Emit(m, "unknown", 0, command))))

ExecuteStatement(m, stmt0) ==
  ByValue(Strip(stmt0), LAMBDA stmt :
  ByValue(SplitCommand(stmt), LAMBDA parts :
  LET command == parts.command
      arg     == parts.arg
  IN  IF stmt = <<>> THEN Done(m)
      ELSE CASE command = <<"PRINT">> -> CmdPrint(m, arg)
             [] command = <<"LET">>   -> CmdLet(m, arg)
             [] command = <<"GOTO">>  -> Raise(m)
             [] command = <<"IF">>    -> Raise(m)
             [] command = <<"DIM">>   -> CmdDim(m, arg)
             [] command = <<"END">>   -> Done(m)
             [] command = <<"RUN">>   -> CallOf(m, "run", <<>>)
             [] command = <<"LIST">>  -> Done(CmdList(m))
             [] command = <<"NEW">>   -> Done(CmdNew(m))
             [] command = <<"LOAD">>  -> CallOf(m, "load", arg)
             [] command = <<"SAVE">>  -> Done(CmdSave(m, arg))
             [] command = <<"QUIT">>  -> Done([m EXCEPT !.running = FALSE])
             [] OTHER -> Done(Emit(m, "unknown", 0, command))))

\* process_input without the test "if code": a bare line number stores an
\* empty statement under it
ProcessInputStoresEmpty(m, line0) ==
  LET line     == Strip(line0)
      d        == LeadDigits(line)
      line_num == ParseInt(SubSeq(line, 1, d))
      code     == Strip(SubSeq(line, d + 1, Len(line)))
  IN  IF line = <<>> THEN Done(m)
      ELSE IF d > 0
           THEN Done([m EXCEPT !.program = DictSet(@, line_num, code)])
      ELSE ExecuteStatement(m, line)

ProcessInput(m, line0) ==
  ByValue(Strip(line0), LAMBDA line :
  ByValue(LeadDigits(line), LAMBDA d :
  ByValue(ParseInt(SubSeq(line, 1, d)), LAMBDA line_num :
  ByValue(Strip(SubSeq(line, d + 1, Len(line))), LAMBDA code :
    IF line = <<>> THEN Done(m)
    ELSE IF d > 0
         THEN IF code # <<>>
              THEN Done([m EXCEPT !.program = DictSet(@, line_num, code)])
              ELSE IF DictHas(m.program, line_num)
                   THEN Done([m EXCEPT !.program = DictDel(@, line_num)])
                   ELSE Done(m)
    ELSE ExecuteStatement(m, line)))))

\* ---------------------------------------------------------------- calls
\* A frame is one active call of execute_program (k = "run": the sorted
\* line numbers and the 0-based pc_idx) or of cmd_load (k = "load": the
\* lines of the file not yet read, and the file's name).
RunFrame(lines, pc) ==
  [k |-> "run", lines |-> lines, pc |-> pc, rest |-> <<>>, fname |-> <<>>]
LoadFrame(rest, fname) ==
  [k |-> "load", lines |-> <<>>, pc |-> 0, rest |-> rest, fname |-> fname]

Entered(m, exc, push) == [m |-> m, exc |-> exc, push |-> push]

\* execute_program, lines 92-103: up to the loop; start_line is <<>> for
\* None and <<n>> for the line number n
ExecuteProgramEntry(m, start_line) ==
  LET lines == Sorted(Keys(m.program))
  IN  IF m.program = <<>> THEN Entered(m, FALSE, <<>>)
      ELSE IF start_line = <<>>
           THEN Entered(m, FALSE, <<RunFrame(lines, 0)>>)
      ELSE IF Index(lines, start_line[1]) >= 0
           THEN Entered(m, FALSE,
                        <<RunFrame(lines, Index(lines, start_line[1]))>>)
      ELSE Entered(Emit(m, "start_not_found", start_line[1], <<>>),
                   FALSE, <<>>)

CmdRun(m) == ExecuteProgramEntry(m, <<>>)

\* cmd_load, lines 187-192: up to the loop over the file
CmdLoadEntry(m, filename) ==
  IF filename = <<>> THEN Entered(Emit(m, "load_usage", 0, <<>>), FALSE, <<>>)
  ELSE IF filename \notin DOMAIN m.disk
       THEN Entered(Emit(m, "error_loading", 0, filename), FALSE, <<>>)
  ELSE Entered([m EXCEPT !.program = <<>>], FALSE,
               <<LoadFrame(m.disk[filename], filename)>>)

\* what a statement's result does where it was dispatched from: a raised
\* exception, the frame of the call it makes, or nothing; a call made when
\* MaxDepth frames are active raises (the host's recursion limit)
Enter(r0, depth) ==
  ByValue(r0, LAMBDA r :
    IF r.exc THEN Entered(r.m, TRUE, <<>>)
    ELSE IF r.call = "none" THEN Entered(r.m, FALSE, <<>>)
    ELSE IF depth >= MaxDepth THEN Entered(r.m, TRUE, <<>>)
    ELSE IF r.call = "run" THEN CmdRun(r.m)
    ELSE CmdLoadEntry(r.m, r.arg))

Top(stk) == stk[Len(stk)]
Pop(stk) == SubSeq(stk, 1, Len(stk) - 1)
SetTop(stk, f) == [stk EXCEPT ![Len(stk)] = f]

\* the caller goes on after the call returned: execute_program does
\* pc_idx += 1 (line 158), cmd_load takes the next line of the file
Resume(stk) ==
  IF stk # <<>> /\ Top(stk).k = "run"
  THEN SetTop(stk, [Top(stk) EXCEPT !.pc = @ + 1])
  ELSE stk

Stepped(m, stk, uncaught, line) ==
  [m |-> m, stack |-> stk, uncaught |-> uncaught, line |-> line]

\* break / return of the top frame
Break(m, stk, line) == Stepped(m, Resume(Pop(stk)), FALSE, line)

\* an exception leaves the top frame: the calling frame catches it (lines
\* 154-156 and 196-197) and returns; with no calling frame it is uncaught
Propagate(m, stk, line) ==
  LET rest == Pop(stk)
  IN  IF rest = <<>> THEN Stepped(m, rest, TRUE, line)
      ELSE IF Top(rest).k = "run"
           THEN Break(Emit(m, "error_on_line",
                           Top(rest).lines[Top(rest).pc + 1], <<>>),
                      rest, line)
           ELSE Break(Emit(m, "error_loading", 0, Top(rest).fname),
                      rest, line)

\* the regular expression (.+?)\s+THEN\s+(.+), matched at the start of arg:
\* the position of the first THEN that has a blank on both sides and text
\* before the blanks, 0 if there is none
ThenAt(arg) ==
  LET hits == {j \in 3..(Len(arg) - 2) :
                 Upper(arg[j]) = "THEN" /\ IsSpace(arg[j-1])
                 /\ IsSpace(arg[j+1])}
  IN  IF hits = {} THEN 0 ELSE CHOOSE j \in hits : \A i \in hits : j <= i

ThenCondition(arg) ==
  ByValue(SubSeq(arg, 1, ThenAt(arg) - 1), LAMBDA before :
    ByValue(SubSeq(before, 2, Len(before)), LAMBDA body :
      <<before[1]>> \o SubSeq(body, 1, Len(body) - TrailSpaces(body))))

ThenTarget(arg) ==
  ByValue(SubSeq(arg, ThenAt(arg) + 1, Len(arg)), LAMBDA after :
    IF LeadSpaces(after) = Len(after) THEN <<after[Len(after)]>>
    ELSE SubSeq(after, LeadSpaces(after) + 1, Len(after)))

\* Jump with the "continue" forgotten: pc_idx += 1 runs after the jump
JumpOffByOne(m, stk, line_num, target_str) ==
  ByValue(EvalExpression(Env(m), target_str), LAMBDA target_line :
    IF ~target_line.ok
    THEN Break(Emit(m, "error_on_line", line_num, <<>>), stk, <<line_num>>)
    ELSE IF Index(Top(stk).lines, target_line.n) >= 0
         THEN Stepped(m, SetTop(stk, [Top(stk) EXCEPT !.pc =
                                  Index(Top(stk).lines, target_line.n) + 1]),
                      FALSE, <<line_num>>)
    ELSE Break(Emit(m, "line_not_found", target_line.n, <<>>),
               stk, <<line_num>>))

\* Jump with the "break" forgotten: a missing target is reported and the
\* run goes on with the next line
JumpNoBreak(m, stk, line_num, target_str) ==
  ByValue(EvalExpression(Env(m), target_str), LAMBDA target_line :
    IF ~target_line.ok
    THEN Break(Emit(m, "error_on_line", line_num, <<>>), stk, <<line_num>>)
    ELSE IF Index(Top(stk).lines, target_line.n) >= 0
         THEN Stepped(m, SetTop(stk, [Top(stk) EXCEPT !.pc =
                                  Index(Top(stk).lines, target_line.n)]),
                      FALSE, <<line_num>>)
    ELSE Stepped(Emit(m, "line_not_found", target_line.n, <<>>),
                 SetTop(stk, [Top(stk) EXCEPT !.pc = @ + 1]),
                 FALSE, <<line_num>>))

\* GOTO, lines 117-123, and the taken IF, lines 137-143
Jump(m, stk, line_num, target_str) ==
  ByValue(EvalExpression(Env(m), target_str), LAMBDA target_line :
    IF ~target_line.ok
    THEN Break(Emit(m, "error_on_line", line_num, <<>>), stk, <<line_num>>)
    ELSE IF Index(Top(stk).lines, target_line.n) >= 0
         THEN Stepped(m, SetTop(stk, [Top(stk) EXCEPT !.pc =
                                  Index(Top(stk).lines, target_line.n)]),
                      FALSE, <<line_num>>)
    ELSE Break(Emit(m, "line_not_found", target_line.n, <<>>),
               stk, <<line_num>>))

\* the end of an iteration with pc_idx += 1 forgotten
AdvanceNoIncrement(m, stk, line_num) ==
  Stepped(m, stk, FALSE, <<line_num>>)

\* the end of an iteration that did not jump or break: pc_idx += 1
Advance(m, stk, line_num) ==
  Stepped(m, SetTop(stk, [Top(stk) EXCEPT !.pc = @ + 1]), FALSE, <<line_num>>)

\* IF, lines 125-146
IfStatement(m, stk, line_num, arg) ==
  IF ThenAt(arg) = 0
  THEN Break(Emit(m, "if_syntax", line_num, <<>>), stk, <<line_num>>)
  ELSE ByValue(EvalCondition(Env(m), ThenCondition(arg)), LAMBDA cond :
         IF ~cond.ok
         THEN Break(Emit(m, "error_on_line", line_num, <<>>),
                    stk, <<line_num>>)
         ELSE IF cond.b
              THEN ByValue(ThenTarget(arg), LAMBDA target_str :
                     Jump(m, stk, line_num, target_str))
         ELSE Advance(m, stk, line_num))

\* every other statement, lines 151-156
OtherStatement(m, stk, line_num, stmt) ==
  ByValue(Enter(ExecuteStatement(m, stmt), Len(stk)), LAMBDA e :
    IF e.exc
    THEN Break(Emit(e.m, "error_on_line", line_num, <<>>),
               stk, <<line_num>>)
    ELSE IF e.push # <<>>
         THEN Stepped(e.m, stk \o e.push, FALSE, <<line_num>>)
    ELSE Advance(e.m, stk, line_num))

\* the loop without the END case: END goes to execute_statement, which
\* does nothing for it, and the run goes on
ExecuteProgramIterationEndPasses(m, stk) ==
  LET f        == Top(stk)
      line_num == f.lines[f.pc + 1]
      stmt     == DictGet(m.program, line_num)
  IN  IF ~(0 <= f.pc /\ f.pc < Len(f.lines)) THEN Break(m, stk, <<>>)
      ELSE IF ~DictHas(m.program, line_num) THEN Propagate(m, stk, <<>>)
      ELSE ByValue(SplitCommand(Strip(stmt)), LAMBDA parts :
             CASE parts.command = <<"GOTO">> ->
                    Jump(m, stk, line_num, parts.arg)
               [] parts.command = <<"IF">> ->
                    IfStatement(m, stk, line_num, parts.arg)
               [] OTHER -> OtherStatement(m, stk, line_num, stmt))

\* one test of the loop condition of execute_program and, when it holds,
\* one iteration (lines 105-158); line is <<n>> for the line number n whose
\* statement was dispatched, <<>> when none was

ExecuteProgramIteration(m, stk) ==
  LET f        == Top(stk)
      line_num == f.lines[f.pc + 1]
      stmt     == DictGet(m.program, line_num)
  IN  IF ~(0 <= f.pc /\ f.pc < Len(f.lines)) THEN Break(m, stk, <<>>)
      ELSE IF ~DictHas(m.program, line_num) THEN Propagate(m, stk, <<>>)
      ELSE ByValue(SplitCommand(Strip(stmt)), LAMBDA parts :
             CASE parts.command = <<"GOTO">> ->
                    Jump(m, stk, line_num, parts.arg)
               [] parts.command = <<"IF">> ->
                    IfStatement(m, stk, line_num, parts.arg)
               [] parts.command = <<"END">> -> Break(m, stk, <<line_num>>)
               [] OTHER -> OtherStatement(m, stk, line_num, stmt))

\* one test of the loop of cmd_load and, when it holds, one line of the
\* file handed to process_input (lines 193-197)
CmdLoadIteration(m, stk) ==
  LET f    == Top(stk)
      next == SetTop(stk, [f EXCEPT !.rest = Tail(@)])
  IN  IF f.rest = <<>>
      THEN Break(Emit(m, "loaded", 0, f.fname), stk, <<>>)
      ELSE ByValue(Enter(ProcessInput(m, Head(f.rest)), Len(stk)),
             LAMBDA e :
             IF e.exc
             THEN Break(Emit(e.m, "error_loading", 0, f.fname), stk, <<>>)
             ELSE Stepped(e.m, next \o e.push, FALSE, <<>>))

\* ---------------------------------------------------------------- inputs
\* program files the session may find on disk under the name F
ProgIf ==
  << <<"1", "0", " ", "LET", " ", "A", " ", "=", " ", "1", "\n">>,
     <<"2", "0", " ", "IF", " ", "A", " ", "=", " ", "1", " ", "THEN", " ", "4", "0", "\n">>,
     <<"3", "0", " ", "LET", " ", "A", " ", "=", " ", "9", "9", "\n">>,
     <<"4", "0", " ", "PRINT", " ", "A", "\n">> >>

ProgIfFalse ==
  << <<"4", "0", " ", "PRINT", " ", "A", "\n">>,
     <<"3", "0", " ", "LET", " ", "A", " ", "=", " ", "9", "9", "\n">>,
     <<"2", "0", " ", "if", " ", "A", " ", "=", " ", "1", " ", "then", " ", "4", "0", "\n">>,
     <<"1", "0", " ", "LET", " ", "A", " ", "=", " ", "2", "\n">> >>

ProgJump ==
  << <<"1", "0", " ", "GOTO", " ", "3", "0", "\n">>,
     <<"2", "0", " ", "PRINT", " ", "2", "\n">>,
     <<"3", "0", " ", "IF", " ", "A", " ", "=", " ", "0", " ", "THEN", " ", "5", "0", "\n">>,
     <<"4", "0", " ", "PRINT", " ", "4", "\n">> >>

ProgGoto ==
  << <<"LET", " ", "A", " ", "=", " ", "7", "\n">>,
     <<"1", "0", " ", "GOTO", " ", "A", " ", "+", " ", "2", "3", "\n">>,
     <<"2", "0", " ", "PRINT", " ", "2", "\n">>,
     <<"3", "0", " ", "PRINT", " ", "A", "\n">>,
     <<"RUN", "\n">> >>

ProgArray ==
  << <<"1", "0", " ", "DIM", " ", "B", "(", "2", ")", "\n">>,
     <<"2", "0", " ", "LET", " ", "B", "(", "2", ")", " ", "=", " ", "9", "\n">>,
     <<"3", "0", " ", "PRINT", " ", "B", "(", "0", "-", "1", ")", "\n">>,
     <<"4", "0", " ", "LET", " ", "B", " ", "=", " ", "5", "\n">>,
     <<"5", "0", " ", "PRINT", " ", "B", "(", "3", ")", "\n">>,
     <<"6", "0", " ", "PRINT", " ", "6", "\n">> >>

ProgWrite ==
  << <<"DIM", " ", "B", "(", "1", ")", "\n">>,
     <<"1", "0", " ", "LET", " ", "B", "(", "1", ")", " ", "=", " ", "4", "\n">>,
     <<"2", "0", " ", "LET", " ", "B", "(", "0", "-", "1", ")", " ", "=", " ", "5", "\n">>,
     <<"3", "0", " ", "PRINT", " ", "3", "\n">> >>

ProgErrors ==
  << <<"1", "0", " ", "LET", " ", "A", "\n">>,
     <<"2", "0", " ", "PRINT", " ", "1", "/", "0", "\n">>,
     <<"3", "0", " ", "PRINT", " ", "3", "\n">> >>

ProgIfBad ==
  << <<"1", "0", " ", "PRINT", " ", "B", "\n">>,
     <<"2", "0", " ", "IF", " ", "A", " ", "=", " ", "0", "\n">>,
     <<"3", "0", " ", "PRINT", " ", "3", "\n">> >>

ProgMeta ==
  << <<"1", "0", " ", "LIST", "\n">>,
     <<"2", "0", " ", "NEW", "\n">>,
     <<"3", "0", " ", "PRINT", " ", "1", "\n">> >>

ProgNested ==
  << <<"1", "0", " ", "FOO", "\n">>,
     <<"2", "0", " ", "RUN", "\n">>,
     <<"3", "0", " ", "END", "\n">>,
     <<"4", "0", " ", "PRINT", " ", "4", "\n">> >>

ProgDim ==
  << <<"1", "0", " ", "DIM", " ", "A", "(", "1", ")", "\n">>,
     <<"2", "0", " ", "LET", " ", "A", "(", "1", ")", " ", "=", " ", "3", "\n">>,
     <<"3", "0", " ", "DIM", " ", "A", "(", "0", "-", "1", ")", "\n">>,
     <<"4", "0", " ", "LET", " ", "C", "(", "0", ")", " ", "=", " ", "1", "\n">>,
     <<"5", "0", " ", "PRINT", " ", "5", "\n">> >>

ProgEdit ==
  << <<"3", "0", " ", "PRINT", " ", "3", "\n">>,
     <<"1", "0", " ", "PRINT", " ", "1", "\n">>,
     <<"2", "0", " ", " ", "PRINT", " ", "2", "\n">>,
     <<"1", "0", "\n">>,
     <<"0", "3", "0", "PRINT", " ", "4", "\n">>,
     <<"1", "5", " ", "\n">>,
     <<"5", " ", "6", " ", "FOO", "\n">> >>

ProgDirect ==
  << <<"1", "0", " ", "PRINT", " ", "1", "\n">>,
     <<"if", " ", "A", " ", "=", " ", "0", " ", "then", " ", "1", "0", "\n">>,
     <<"2", "0", " ", "PRINT", " ", "2", "\n">> >>

ProgDiv ==
  << <<"1", "0", " ", "LET", " ", "A", " ", "=", " ", "7", " ", "/", " ", "2", "\n">>,
     <<"2", "0", " ", "LET", " ", "B", " ", "=", " ", "(", "0", " ", "-", " ", "7", ")", " ", "/", " ", "2", "\n">>,
     <<"3", "0", " ", "LET", " ", "A", " ", "=", " ", "B", " ", "/", " ", "(", "A", " ", "-", " ", "3", ")", "\n">>,
     <<"4", "0", " ", "PRINT", " ", "A", "\n">> >>

ProgRedim ==
  << <<"1", "0", " ", "DIM", " ", "A", "(", "2", ")", "\n">>,
     <<"2", "0", " ", "LET", " ", "A", "(", "2", ")", " ", "=", " ", "9", "\n">>,
     <<"3", "0", " ", "DIM", " ", "A", "(", "1", ")", "\n">>,
     <<"4", "0", " ", "PRINT", " ", "A", "(", "1", ")", "\n">>,
     <<"5", "0", " ", "PRINT", " ", "A", "(", "2", ")", "\n">> >>

Files ==
  {ProgRedim, ProgDiv, ProgDirect, ProgEdit, ProgIf, ProgIfFalse, ProgJump, ProgGoto, ProgArray, ProgWrite,
   ProgErrors, ProgIfBad, ProgMeta, ProgNested, ProgDim}

FileF == <<"F">>    \* the name of that file

\* lines the driver types
TypeLoad == <<"LOAD", " ", "F">>
TypeRun == <<"RUN">>
TypeRun20 == <<"RUN", " ", "2", "0">>
TypeGoto == <<"GOTO", " ", "1", "0">>
TypeList == <<"LIST">>
TypeNew == <<"NEW">>
TypeDelete == <<"2", "0">>
TypeDeleteAbsent == <<" ", "1", "5", " ">>
TypeLine15 == <<"1", "5", " ", "PRINT", " ", "5">>
TypeLine10 == <<"1", "0", " ", "PRINT", " ", "7">>
TypeLetA == <<"LET", " ", "A", " ", "=", " ", "1">>
TypeDimB == <<"DIM", " ", "B", "(", "1", ")">>
TypeLetB == <<"LET", " ", "B", " ", "=", " ", "5">>
TypeLetB1 == <<"LET", " ", "B", "(", "1", ")", " ", "=", " ", "3">>
TypePrintB == <<"PRINT", " ", "B", "(", "0", "-", "2", ")">>
TypeSave == <<"SAVE", " ", "G">>
TypeLoadG == <<"LOAD", " ", "G">>
TypeQuit == <<"QUIT">>

Typed ==
  {TypeLoad,
   TypeRun,
   TypeRun20,
   TypeGoto,
   TypeList,
   TypeNew,
   TypeDelete,
   TypeDeleteAbsent,
   TypeLine15,
   TypeLine10,
   TypeLetA,
   TypeDimB,
   TypeLetB,
   TypeLetB1,
   TypePrintB,
   TypeSave,
   TypeLoadG,
   TypeQuit}

\* ---------------------------------------------------------------- state
VARIABLES
  program,    \* self.program
  variables,  \* self.variables
  arrays,     \* self.arrays
  running,    \* self.running
  disk,       \* the files: name -> lines
  out,        \* what was printed since the last typed line
  stack,      \* the active calls of execute_program and cmd_load
  mode,       \* "start", "repl", "script_load", "script_run", "exit"
  inputs,     \* lines typed so far
  steps,      \* loop iterations since the last command
  lastInput,  \* the last typed line
  entry,      \* self.program when the last typed line was entered
  trace       \* line numbers executed since the last command, in order

vars == <<program, variables, arrays, running, disk, out, stack, mode,
          inputs, steps, lastInput, entry, trace>>

Machine ==
  [program |-> program, variables |-> variables, arrays |-> arrays,
   running |-> running, disk |-> disk, out |-> out]

Becomes(m) ==
  /\ program' = m.program
  /\ variables' = m.variables
  /\ arrays' = m.arrays
  /\ running' = m.running
  /\ disk' = m.disk
  /\ out' = m.out

\* __init__, and the disk the session starts with
Init ==
  /\ program = <<>>
  /\ variables = [l \in Letters |-> 0]
  /\ arrays = <<>>
  /\ running = TRUE
  /\ disk \in {[f \in {FileF} |-> file] : file \in Files}
  /\ out = <<>>
  /\ stack = <<>>
  /\ mode = "start"
  /\ inputs = 0
  /\ steps = 0
  /\ lastInput = <<>>
  /\ entry = <<>>
  /\ trace = <<>>

\* __main__ without an argument: run_interactive
MainInteractive ==
  /\ mode = "start"
  /\ mode' = "repl"
  /\ out' = <<Event("ready", 0, <<>>)>>
  /\ UNCHANGED <<program, variables, arrays, running, disk, stack, inputs,
                 steps, lastInput, entry, trace>>

\* __main__ with a file argument: cmd_load(sys.argv[1]) ...
MainScript ==
  /\ mode = "start"
  /\ \E e \in {CmdLoadEntry(Machine, FileF)} :
       Becomes(e.m) /\ stack' = e.push
  /\ mode' = "script_load"
  /\ UNCHANGED <<inputs, steps, lastInput, entry, trace>>

\* ... then cmd_run()
ScriptRun ==
  /\ mode = "script_load" /\ stack = <<>>
  /\ \E e \in {CmdRun(Machine)} :
       Becomes(e.m) /\ stack' = e.push
  /\ mode' = "script_run"
  /\ entry' = program
  /\ steps' = 0
  /\ trace' = <<>>
  /\ UNCHANGED <<inputs, lastInput>>

ScriptExit ==
  /\ mode = "script_run" /\ stack = <<>>
  /\ mode' = "exit"
  /\ UNCHANGED <<program, variables, arrays, running, disk, out, stack,
                 inputs, steps, lastInput, entry, trace>>

\* one turn of run_interactive: a line is typed and handed to process_input
TypeLine(line) ==
  /\ mode = "repl" /\ stack = <<>> /\ running
  /\ inputs < MaxInputs
  /\ \E e \in {Enter(ProcessInput([Machine EXCEPT !.out = <<>>], line), 0)} :
       /\ Becomes(IF e.exc THEN Emit(e.m, "error", 0, <<>>) ELSE e.m)
       /\ stack' = e.push
  /\ inputs' = inputs + 1
  /\ steps' = 0
  /\ lastInput' = line
  /\ entry' = program
  /\ trace' = <<>>
  /\ UNCHANGED mode

\* an exception nobody caught: run_interactive prints it and reads the next
\* line; in a script it ends the process
Finish(r0) ==
  \E r \in {r0} :
    /\ Becomes(IF r.uncaught /\ mode = "repl"
               THEN Emit(r.m, "error", 0, <<>>) ELSE r.m)
    /\ stack' = r.stack
    /\ mode' = IF r.uncaught /\ mode # "repl" THEN "exit" ELSE mode
    /\ trace' = trace \o r.line
    /\ steps' = steps + 1
    /\ UNCHANGED <<inputs, lastInput, entry>>

ExecuteProgramStep ==
  /\ stack # <<>> /\ Top(stack).k = "run"
  /\ steps < MaxSteps
  /\ Finish(ExecuteProgramIteration(Machine, stack))

CmdLoadStep ==
  /\ stack # <<>> /\ Top(stack).k = "load"
  /\ steps < MaxSteps
  /\ Finish(CmdLoadIteration(Machine, stack))

Next ==
  \/ MainInteractive
  \/ MainScript
  \/ ScriptRun
  \/ ScriptExit
  \/ \E line \in Typed : TypeLine(line)
  \/ ExecuteProgramStep
  \/ CmdLoadStep

Spec == Init /\ [][Next]_vars

\* the interpreter is one thread: a loop of execute_program that has
\* started keeps taking its iterations
FairSpec == Spec /\ WF_vars(ExecuteProgramStep)

\* ---------------------------------------------------------------- claims
\* the Program Store as a set of (line number, code) pairs
Entries(p) == {<<p[i].num, p[i].code>> : i \in 1..Len(p)}
KeySet(p) == {p[i].num : i \in 1..Len(p)}

Last(s) == s[Len(s)]

\* a loop iteration of RUN is about to dispatch a stored statement
AtStatement ==
  /\ stack # <<>> /\ Top(stack).k = "run"
  /\ 0 <= Top(stack).pc /\ Top(stack).pc < Len(Top(stack).lines)
  /\ DictHas(program, Top(stack).lines[Top(stack).pc + 1])
  /\ steps < MaxSteps

CurLine == Top(stack).lines[Top(stack).pc + 1]
CurStmt == DictGet(program, CurLine)
CurCommand == SplitCommand(Strip(CurStmt)).command
CurArg == SplitCommand(Strip(CurStmt)).arg

\* the step taken dispatches the statement at CurLine
Dispatches == AtStatement /\ steps' = steps + 1

\* the run that dispatched has ended: its frame is gone, the frames under
\* it are the ones that were there
RunEnded ==
  /\ Len(stack') = Len(stack) - 1
  /\ \A i \in 1..Len(stack') : stack'[i].k = stack[i].k

\* the last typed command, and whether it has run to its end
LastCommand == SplitCommand(Strip(lastInput)).command
Idle == stack = <<>>

\* C1: executing LIST or RUN never changes the Program Store: when a LIST or
\* RUN command has finished, the store holds the same line numbers and the
\* same code under each as when the command was entered, whatever the
\* stored lines contain.
C1_ListRunKeepStore ==
  (/\ Idle
   /\ \/ mode = "repl" /\ LastCommand \in {<<"RUN">>, <<"LIST">>}
      \/ mode \in {"script_run", "exit"})
  => Entries(program) = Entries(entry)

\* the line the run on top of the stack dispatches next, <<>> when its
\* pc_idx is past the last line
NextUp ==
  IF /\ stack # <<>> /\ Top(stack).k = "run"
     /\ 0 <= Top(stack).pc /\ Top(stack).pc < Len(Top(stack).lines)
  THEN <<Top(stack).lines[Top(stack).pc + 1]>>
  ELSE <<>>

\* the stored line that follows line n in ascending order, <<>> if none
Successor(n) ==
  LET above == {k \in KeySet(program) : k > n}
  IN  IF above = {} THEN <<>>
      ELSE <<CHOOSE k \in above : \A j \in above : k <= j>>

Prints(o) == SelectSeq(o, LAMBDA e : e.ev = "print")

\* an IF with THEN whose condition evaluates
IfCondition == EvalCondition(Env(Machine), ThenCondition(CurArg))
IfTarget == EvalExpression(Env(Machine), ThenTarget(CurArg))
IfDispatched ==
  /\ Dispatches /\ CurCommand = <<"IF">>
  /\ ThenAt(CurArg) > 0 /\ IfCondition.ok

C2_Step ==
  IfDispatched =>
    /\ (IfCondition.b /\ IfTarget.ok /\ IfTarget.n \in KeySet(program))
         => Len(stack') = Len(stack) /\ NextUp' = <<IfTarget.n>>
    /\ ~IfCondition.b
         => Len(stack') = Len(stack) /\ NextUp' = Successor(CurLine)
    /\ UNCHANGED <<program, variables, arrays>>

\* the program 10 LET A = 1, 20 IF A = 1 THEN 40, 30 LET A = 99, 40 PRINT A
IfProgram ==
  { <<10, <<"LET", " ", "A", " ", "=", " ", "1">> >>,
    <<20, <<"IF", " ", "A", " ", "=", " ", "1", " ", "THEN", " ", "4", "0">> >>,
    <<30, <<"LET", " ", "A", " ", "=", " ", "9", "9">> >>,
    <<40, <<"PRINT", " ", "A">> >> }

RanToEnd ==
  /\ Idle
  /\ \/ mode = "repl" /\ LastCommand = <<"RUN">>
     \/ mode \in {"script_run", "exit"}

C2_Final ==
  (RanToEnd /\ Entries(entry) = IfProgram /\ "A" \notin DOMAIN arrays)
  => /\ Prints(out) = <<Event("print", 1, <<>>)>>
     /\ \A i \in 1..Len(trace) : trace[i] # 30

\* C2: during RUN, IF <condition> THEN <target> with a true condition makes
\* the line whose number is the target's value the next one executed, and
\* with a false condition the next line in ascending order; the program
\* 10 LET A = 1, 20 IF A = 1 THEN 40, 30 LET A = 99, 40 PRINT A prints
\* exactly 1 and never executes line 30.
C2_IfThen == []C2_Final /\ [][C2_Step]_vars

C2_Witness ==
  /\ RanToEnd /\ Entries(entry) = IfProgram
  /\ trace = <<10, 20, 40>>
  /\ Prints(out) = <<Event("print", 1, <<>>)>>

\* a GOTO, or an IF whose condition is true, whose target evaluates to a
\* number that is no stored line
JumpTarget ==
  IF CurCommand = <<"GOTO">> THEN EvalExpression(Env(Machine), CurArg)
  ELSE IfTarget

MissingJump ==
  /\ \/ Dispatches /\ CurCommand = <<"GOTO">>
     \/ IfDispatched /\ IfCondition.b
  /\ JumpTarget.ok /\ JumpTarget.n \notin KeySet(program)

TypedStmt == inputs' = inputs + 1 /\ LeadDigits(Strip(lastInput')) = 0
Exec == TypedStmt \/ Dispatches
Stmt == IF TypedStmt THEN Strip(lastInput') ELSE Strip(CurStmt)
StmtCommand == SplitCommand(Stmt).command
StmtArg == SplitCommand(Stmt).arg

\* the step reports an error / prints the value v
ErrorEvents == {"error", "error_on_line", "if_syntax", "error_loading"}
Reported ==
  /\ out' # <<>> /\ Last(out').ev \in ErrorEvents
  /\ Prints(out') = IF TypedStmt THEN <<>> ELSE Prints(out)
Printed(v) ==
  /\ out' # <<>> /\ Last(out') = Event("print", v, <<>>)
  /\ Len(out') = IF TypedStmt THEN 1 ELSE Len(out) + 1

\* a statement dispatched by RUN fails: a malformed LET or IF, or an
\* expression in it that does not evaluate
StatementFails ==
  /\ Dispatches
  /\ \/ CurCommand = <<"LET">> /\ Find(<<"=">>, CurArg) = 0
     \/ CurCommand = <<"IF">> /\ ThenAt(CurArg) = 0
     \/ CurCommand = <<"IF">> /\ ThenAt(CurArg) > 0 /\ ~IfCondition.ok
     \/ IfDispatched /\ IfCondition.b /\ ~IfTarget.ok
     \/ CurCommand = <<"GOTO">> /\ ~EvalExpression(Env(Machine), CurArg).ok
     \/ /\ CurCommand \in {<<"PRINT">>, <<"LET">>, <<"DIM">>}
        /\ ExecuteStatement(Machine, CurStmt).exc

\* C4: during RUN, a statement that fails (other than an unknown command)
\* halts the run at that line: an error naming that line's number is
\* reported and the run executes nothing further.
C4_Original ==
  [][StatementFails =>
       /\ RunEnded /\ trace' = Append(trace, CurLine)
       /\ Len(out') = Len(out) + 1
       /\ Last(out').ev \in {"error_on_line", "if_syntax"}
       /\ Last(out').n = CurLine]_vars

\* LET <letter> = <expr> and PRINT <letter>
LetParts(arg) ==
  [var_name |-> UpperSeq(Strip(SubSeq(arg, 1, Find(<<"=">>, arg) - 1))),
   expr     |-> SubSeq(arg, Find(<<"=">>, arg) + 1, Len(arg))]

ScalarLet ==
  /\ Exec /\ StmtCommand = <<"LET">> /\ Find(<<"=">>, StmtArg) > 0
  /\ Len(LetParts(StmtArg).var_name) = 1
  /\ LetParts(StmtArg).var_name[1] \in DOMAIN arrays

BareRead ==
  /\ Exec /\ StmtCommand = <<"PRINT">>
  /\ Len(UpperSeq(StmtArg)) = 1 /\ UpperSeq(StmtArg)[1] \in DOMAIN arrays

\* C5: once DIM has declared letter L as an array, every scalar access to L
\* fails with an error: PRINT L fails, and LET L = <expr> fails without
\* storing any value.
C5_Original ==
  [][/\ BareRead => Reported
     /\ ScalarLet => Reported /\ variables' = variables]_vars

\* PRINT L(<index>): whether stmt is one whose index evaluates and whose
\* L is a declared array, and then the letter and the index
ArrayReadCase(env, stmt) ==
  LET parts == SplitCommand(stmt)
      arg   == UpperSeq(parts.arg)
      idx   == EvalExpression(env, SubSeq(arg, 3, Len(arg) - 1))
  IN  IF /\ parts.command = <<"PRINT">> /\ IsArrayForm(arg)
         /\ arg[1] \in DOMAIN env.arrays /\ idx.ok
      THEN [applies |-> TRUE, name |-> arg[1], i |-> idx.n]
      ELSE [applies |-> FALSE, name |-> "", i |-> 0]

\* C6: reading L(i) of an array declared by DIM L(n) gives the stored
\* element when 0 <= i <= n and fails for every other i, negative i
\* included.
C6_Original ==
  [][LET r == ArrayReadCase(Env(Machine), Stmt)
     IN  (Exec /\ r.applies) =>
           IF 0 <= r.i /\ r.i <= Len(arrays[r.name]) - 1
           THEN Printed(arrays[r.name][r.i + 1])
           ELSE Reported]_vars

\* LET L(<index>) = <expr>: whether stmt is one whose index and expression
\* evaluate, and then the letter, the index and the value
LetArrayCase(env, stmt) ==
  LET parts == SplitCommand(stmt)
      lp    == LetParts(parts.arg)
      v     == EvalExpression(env, lp.expr)
      idx   == EvalExpression(env,
                 SubSeq(lp.var_name, 3, Len(lp.var_name) - 1))
  IN  IF /\ parts.command = <<"LET">> /\ Find(<<"=">>, parts.arg) > 0
         /\ IsArrayForm(lp.var_name) /\ v.ok /\ idx.ok
      THEN [applies |-> TRUE, name |-> lp.var_name[1], i |-> idx.n,
            v |-> v.n]
      ELSE [applies |-> FALSE, name |-> "", i |-> 0, v |-> 0]

\* the value of the expression L(i) in the state after the step
ReadBack(name, i) ==
  EvalExpression([variables |-> variables', arrays |-> arrays'],
                 <<name, "(">> \o IntToStr(i) \o <<")">>)

\* C7: LET L(i) = e with L declared of size n and 0 <= i <= n sets element
\* i to the value of e and changes no other element, array or scalar, and
\* a read of L(i) then gives that value; with i outside 0..n or L not
\* declared the LET fails and no scalar or array element changes.
C7_LetArray ==
  [][LET w == LetArrayCase(Env(Machine), Stmt)
     IN  (Exec /\ w.applies) =>
           IF /\ w.name \in DOMAIN arrays
              /\ 0 <= w.i /\ w.i <= Len(arrays[w.name]) - 1
           THEN /\ arrays' = [arrays EXCEPT ![w.name][w.i + 1] = w.v]
                /\ ReadBack(w.name, w.i) = [ok |-> TRUE, n |-> w.v]
                /\ UNCHANGED <<variables, program>>
                /\ out' = IF TypedStmt THEN <<>> ELSE out
           ELSE /\ UNCHANGED <<arrays, variables, program>>
                /\ Reported]_vars

C7_Witness ==
  /\ "B" \in DOMAIN arrays /\ Len(arrays["B"]) = 3
  /\ arrays["B"] = <<0, 0, 9>>
  /\ trace # <<>> /\ Last(trace) = 20

\* DIM L(<size>): whether stmt is one whose size evaluates, and the size
DimCase(env, stmt) ==
  LET parts == SplitCommand(stmt)
      arg   == UpperSeq(Strip(parts.arg))
      size  == EvalExpression(env, SubSeq(arg, 3, Len(arg) - 1))
  IN  IF parts.command = <<"DIM">> /\ IsArrayForm(arg) /\ size.ok
      THEN [applies |-> TRUE, name |-> arg[1], size |-> size.n]
      ELSE [applies |-> FALSE, name |-> "", size |-> 0]

\* C8: DIM with a negative size fails with an error and neither creates nor
\* replaces the array, so every declared array has length at least 1.
C8_Original ==
  /\ [](\A l \in DOMAIN arrays : Len(arrays[l]) >= 1)
  /\ [][LET d == DimCase(Env(Machine), Stmt)
        IN  (Exec /\ d.applies /\ d.size < 0)
              => Reported /\ arrays' = arrays]_vars

\* the line a step hands to process_input: one typed, or the next line of
\* a file being loaded; <<>> when the step hands none
Submitted ==
  IF inputs' = inputs + 1 THEN <<lastInput'>>
  ELSE IF /\ stack # <<>> /\ Top(stack).k = "load"
          /\ Top(stack).rest # <<>> /\ steps' = steps + 1
       THEN <<Head(Top(stack).rest)>>
  ELSE <<>>

\* a line number and what follows it
Numbered(line) ==
  LET l == Strip(line)
      d == LeadDigits(l)
  IN  [is   |-> d > 0,
       n    |-> ParseInt(SubSeq(l, 1, d)),
       code |-> Strip(SubSeq(l, d + 1, Len(l)))]

\* C9: submitting a bare line number n removes line n from the Program
\* Store when it is present and changes nothing when it is absent; every
\* other stored line, every variable and every array is unchanged.
C9_DeleteLine ==
  [][LET sub == Submitted
         num == Numbered(sub[1])
     IN  (sub # <<>> /\ num.is /\ num.code = <<>>) =>
           /\ Entries(program') = {e \in Entries(program) : e[1] # num.n}
           /\ num.n \notin KeySet(program) => program' = program
           /\ UNCHANGED <<variables, arrays>>]_vars

C9_Witness ==
  /\ lastInput = <<"2", "0">>
  /\ 20 \in KeySet(entry)
  /\ program # <<>> /\ KeySet(program) = KeySet(entry) \ {20}

\* what LIST prints, the lines RUN walks and the lines SAVE writes
ListingOf(p) == CmdList([Machine EXCEPT !.program = p, !.out = <<>>]).out
Listing == ListingOf(program)
RunLines == CmdRun(Machine).push[1].lines
SavedLines == CmdSave(Machine, <<"G">>).disk[<<"G">>]

Ascending(ns) ==
  \A i \in 1..Len(ns) : \A j \in 1..Len(ns) : i < j => ns[i] < ns[j]

C10_Sorted ==
  LET o  == Listing
      ns == [i \in 1..Len(o) |-> o[i].n]
  IN  /\ Ascending(ns)
      /\ Len(o) = Cardinality(KeySet(program))
      /\ {<<o[i].n, o[i].code>> : i \in 1..Len(o)} = Entries(program)
      /\ \A i \in 1..Len(o) : o[i].ev = "list"
      /\ program # <<>> => RunLines = ns
      /\ Len(SavedLines) = Len(o)
      /\ \A i \in 1..Len(o) :
           SavedLines[i] = IntToStr(ns[i]) \o <<" ">> \o o[i].code \o <<"\n">>

C10_Latest ==
  LET sub == Submitted
      num == Numbered(sub[1])
  IN  (sub # <<>> /\ num.is /\ num.code # <<>>) =>
        /\ Entries(program') =
             {e \in Entries(program) : e[1] # num.n}
               \cup {<<num.n, num.code>>}
        /\ LET after == ListingOf(program')
           IN  /\ Cardinality({i \in 1..Len(after) : after[i].n = num.n}) = 1
               /\ \A i \in 1..Len(after) :
                     after[i].n = num.n => after[i].code = num.code

\* C10: after any sequence of line submissions and deletions, LIST (and the
\* lines RUN walks, and the lines SAVE writes) gives each stored line
\* exactly once, in strictly ascending line-number order, with the code
\* most recently submitted for that number.
C10_ListOrder == []C10_Sorted /\ [][C10_Latest]_vars

C10_Witness ==
  /\ Idle /\ mode = "repl" /\ LastCommand = <<"LIST">>
  /\ \E i \in 1..Len(program) : \E j \in 1..Len(program) :
       i < j /\ program[i].num > program[j].num
  /\ out = Listing

\* the store after cmd_load has read the given lines: cleared, then each
\* line handed to process_input
RECURSIVE LoadAll(_, _)
LoadAll(m, lines) ==
  IF lines = <<>> THEN m
  ELSE LoadAll(ProcessInput(m, Head(lines)).m, Tail(lines))

Reloaded(p) ==
  LoadAll([Machine EXCEPT !.program = <<>>],
          FileLines(p, Sorted(Keys(p)))).program

\* a typed LOAD G has finished, and G holds what SAVE writes for the store
\* the LOAD started from
LoadedOwnSave ==
  /\ Idle /\ mode = "repl" /\ lastInput = TypeLoadG
  /\ <<"G">> \in DOMAIN disk
  /\ disk[<<"G">>] = FileLines(entry, Sorted(Keys(entry)))

\* C11: save/load round trip: loading the '<line_number> <code>' lines that
\* SAVE produces from any reachable Program Store yields a store with
\* exactly the same line numbers and the same code under each.
C11_RoundTrip ==
  /\ Entries(Reloaded(program)) = Entries(program)
  /\ Len(Reloaded(program)) = Cardinality(KeySet(program))
  /\ LoadedOwnSave =>
       /\ Entries(program) = Entries(entry)
       /\ out = <<Event("loaded", 0, <<"G">>)>>

C11_Witness ==
  /\ LoadedOwnSave
  /\ Cardinality(KeySet(program)) >= 3
  /\ \E i \in 1..Len(entry) : \E j \in 1..Len(entry) :
       i < j /\ entry[i].num > entry[j].num

\* a RUN typed in direct mode, and the lowest stored line number
TypedRun == TypedStmt /\ StmtCommand = <<"RUN">>
Lowest(p) == CHOOSE k \in KeySet(p) : \A j \in KeySet(p) : k <= j

\* C12: RUN with a starting line number n begins at line n when n is a
\* stored line, and reports 'line not found' and executes nothing when n is
\* not a stored line, the empty program included; with no starting line it
\* begins at the lowest-numbered line.
C12_Original ==
  [][TypedRun =>
       LET n == EvalExpression(Env(Machine), StmtArg)
       IN  IF StmtArg = <<>>
           THEN program # <<>> => NextUp' = <<Lowest(program)>>
           ELSE n.ok =>
                  IF n.n \in KeySet(program)
                  THEN NextUp' = <<n.n>>
                  ELSE /\ stack' = <<>>
                       /\ out' = <<Event("start_not_found", n.n, <<>>)>>]_vars

\* a GOTO dispatched by RUN whose target evaluates to a line of the program
\* being run
GotoTarget == EvalExpression(Env(Machine), CurArg)
GotoDispatched ==
  /\ Dispatches /\ CurCommand = <<"GOTO">>
  /\ GotoTarget.ok /\ Index(Top(stack).lines, GotoTarget.n) >= 0

C13_Step ==
  /\ Dispatches => trace' = Append(trace, CurLine)
  /\ GotoDispatched =>
       /\ Len(stack') = Len(stack)
       /\ NextUp' = <<GotoTarget.n>>
       /\ Top(stack').pc = Index(Top(stack).lines, GotoTarget.n)
       /\ UNCHANGED <<program, variables, arrays, out, disk>>

\* C13: during RUN, a GOTO whose target expression evaluates to an existing
\* line number (a line of the program being run) makes that line the very
\* next statement executed: the program counter is set to the target's
\* index and not incremented again, and GOTO changes no variable, array or
\* stored line.
C13_Goto == [][C13_Step]_vars

C13_Witness ==
  /\ Idle /\ trace = <<10, 30>>
  /\ DictHas(program, 10)
  /\ SplitCommand(DictGet(program, 10)).command = <<"GOTO">>
  /\ Prints(out) = <<Event("print", 7, <<>>)>>

\* the commands execute_program and execute_statement recognise
KnownCommands ==
  {<<"PRINT">>, <<"LET">>, <<"GOTO">>, <<"IF">>, <<"DIM">>, <<"END">>,
   <<"RUN">>, <<"LIST">>, <<"NEW">>, <<"LOAD">>, <<"SAVE">>, <<"QUIT">>}

UnknownDispatched == Dispatches /\ CurCommand \notin KnownCommands

\* C14: a line whose leading keyword is no recognised command is non-fatal
\* inside RUN: 'unknown command' is reported, no variable, array or stored
\* line changes, and execution continues with the next line in ascending
\* order.
C14_Unknown ==
  [][UnknownDispatched =>
       /\ out' = Append(out, Event("unknown", 0, CurCommand))
       /\ UNCHANGED <<program, variables, arrays, disk, running>>
       /\ Len(stack') = Len(stack)
       /\ NextUp' = Successor(CurLine)
       /\ trace' = Append(trace, CurLine)]_vars

C14_Witness ==
  /\ Idle /\ trace = <<5, 30>>
  /\ Len(out) >= 2
  /\ out[Len(out) - 1] = Event("unknown", 0, <<"6">>)
  /\ Last(out) = Event("print", 4, <<>>)

\* a direct-mode statement: a submitted line that has text and no line
\* number; its command
Direct(line) == Strip(line) # <<>> /\ ~Numbered(line).is
DirectCommand(line) == SplitCommand(Strip(line)).command

DirectJump ==
  LET sub == Submitted
  IN  /\ sub # <<>> /\ Direct(sub[1])
      /\ DirectCommand(sub[1]) \in {<<"GOTO">>, <<"IF">>}

\* C15: GOTO and IF submitted in direct mode (unnumbered, outside a running
\* program) are always rejected with an error: no jump is attempted, no
\* stored line is executed, and the Program Store, variables and arrays are
\* unchanged.
C15_DirectJump ==
  [][DirectJump =>
       /\ UNCHANGED <<program, variables, arrays, disk, running>>
       /\ IF inputs' = inputs + 1
          THEN /\ out' = <<Event("error", 0, <<>>)>>
               /\ stack' = <<>> /\ trace' = <<>>
          ELSE /\ out' = Append(out, Event("error_loading", 0,
                                           Top(stack).fname))
               /\ stack' = Resume(Pop(stack)) /\ trace' = trace]_vars

C15_Witness ==
  /\ mode = "repl" /\ Idle
  /\ lastInput = TypeGoto
  /\ 10 \in KeySet(program)
  /\ out = <<Event("error", 0, <<>>)>>
  /\ trace = <<>>

\* the interpreter's variables and arrays after the step
EnvAfter == [variables |-> variables', arrays |-> arrays']

\* C16: NEW from any reachable state leaves the Program Store empty, every
\* letter A-Z bound to scalar 0 and no array declared, so that afterwards
\* reading any bare letter gives 0 and reading any L(i) fails.
C16_New ==
  [][(Exec /\ StmtCommand = <<"NEW">>) =>
       /\ program' = <<>>
       /\ variables' = [l \in Letters |-> 0]
       /\ DOMAIN arrays' = {}
       /\ \A l \in Letters :
            /\ EvalExpression(EnvAfter, <<l>>) = [ok |-> TRUE, n |-> 0]
            /\ ~EvalExpression(EnvAfter, <<l, "(", "0", ")">>).ok
       /\ disk' = disk /\ running' = running
       /\ out' = IF TypedStmt THEN <<>> ELSE out]_vars

C16_Witness ==
  /\ mode = "repl" /\ Idle /\ lastInput = TypeNew
  /\ disk[FileF] = ProgWrite /\ KeySet(entry) = {10, 20, 30}
  /\ program = <<>> /\ DOMAIN arrays = {}
  /\ \A l \in Letters : variables[l] = 0

\* the integers the division is tried on, and an integer as it is written
DivRange == (0 - MaxDiv)..MaxDiv
Literal(n) == IF n < 0 THEN <<"-">> \o IntToStr(0 - n) ELSE IntToStr(n)

\* q is the greatest integer not exceeding the exact quotient a / b
IsFloor(q, a, b) ==
  IF b > 0 THEN q * b <= a /\ a < (q + 1) * b
  ELSE q * b >= a /\ a > (q + 1) * b

Quotient(a, b) ==
  EvalExpression([variables |-> [l \in Letters |-> 0], arrays |-> <<>>],
                 Literal(a) \o <<"/">> \o Literal(b))

C17_Floor ==
  /\ \A a \in DivRange : \A b \in DivRange :
       IF b = 0 THEN ~Quotient(a, b).ok
       ELSE Quotient(a, b).ok /\ IsFloor(Quotient(a, b).n, a, b)
  /\ Quotient(7, 2) = [ok |-> TRUE, n |-> 3]
  /\ Quotient(-7, 2) = [ok |-> TRUE, n |-> -4]

\* an operand of a division: one token, or one parenthesised expression
Operand(s) ==
  \/ Len(s) = 1
  \/ /\ Len(s) >= 3 /\ s[1] = "(" /\ s[Len(s)] = ")"
     /\ \A i \in 2..(Len(s) - 1) : s[i] \notin {"(", ")"}

\* PRINT x / y and LET v = x / y: whether stmt is one whose operands
\* evaluate, and then their values and the letter assigned
DivisionCase(env, stmt) ==
  LET parts == SplitCommand(stmt)
      isLet == parts.command = <<"LET">> /\ Find(<<"=">>, parts.arg) > 0
      expr  == IF isLet THEN LetParts(parts.arg).expr ELSE parts.arg
      at    == Find(<<"/">>, expr)
      left  == Strip(SubSeq(expr, 1, at - 1))
      right == Strip(SubSeq(expr, at + 1, Len(expr)))
      a     == EvalExpression(env, left)
      b     == EvalExpression(env, right)
      var   == LetParts(parts.arg).var_name
  IN  IF /\ isLet \/ parts.command = <<"PRINT">>
         /\ at > 0 /\ Operand(left) /\ Operand(right) /\ a.ok /\ b.ok
         /\ isLet => Len(var) = 1 /\ var[1] \in Letters
      THEN [applies |-> TRUE, let |-> isLet, a |-> a.n, b |-> b.n,
            name |-> IF isLet THEN var[1] ELSE ""]
      ELSE [applies |-> FALSE, let |-> FALSE, a |-> 0, b |-> 0, name |-> ""]

C17_Step ==
  LET d == DivisionCase(Env(Machine), Stmt)
  IN  (Exec /\ d.applies) =>
        IF d.b = 0
        THEN /\ UNCHANGED <<variables, arrays, program>>
             /\ Reported
             /\ Dispatches =>
                  /\ RunEnded /\ trace' = Append(trace, CurLine)
                  /\ out' = Append(out, Event("error_on_line", CurLine, <<>>))
        ELSE IF d.let
             THEN /\ IsFloor(variables'[d.name], d.a, d.b)
                  /\ \A l \in Letters \ {d.name} : variables'[l] = variables[l]
             ELSE \E q \in {Last(out').n} : Printed(q) /\ IsFloor(q, d.a, d.b)

\* C17: integer division uses floor semantics: for all integers a and b
\* with b # 0, a / b evaluates to the greatest integer not exceeding the
\* exact quotient (7 / 2 = 3 and (-7) / 2 = -4); when b = 0 the evaluation
\* fails with an error, and inside RUN that failure halts the run without
\* changing any variable.
C17_Division == []C17_Floor /\ [][C17_Step]_vars

C17_Witness ==
  /\ Idle /\ trace = <<10, 20, 30>>
  /\ variables["A"] = 3 /\ variables["B"] = -4
  /\ out # <<>> /\ Last(out) = Event("error_on_line", 30, <<>>)

\* C18: DIM L(n) with n >= 0 binds L to an array whose indices are exactly
\* 0..n with every element 0; re-issuing DIM on a letter that holds an
\* array replaces it with a fresh zero-filled array, discarding what was
\* written; DIM changes no other letter's scalar or array and no stored
\* line.
C18_Dim ==
  [][LET d == DimCase(Env(Machine), Stmt)
     IN  (Exec /\ d.applies /\ d.size >= 0) =>
           /\ arrays' = [l \in DOMAIN arrays \cup {d.name} |->
                           IF l = d.name THEN [i \in 1..(d.size + 1) |-> 0]
                           ELSE arrays[l]]
           /\ \A i \in 0..d.size :
                ReadBack(d.name, i) = [ok |-> TRUE, n |-> 0]
           /\ ~ReadBack(d.name, d.size + 1).ok
           /\ UNCHANGED <<variables, program, disk>>
           /\ out' = IF TypedStmt THEN <<>> ELSE out
           /\ Dispatches => NextUp' = Successor(CurLine)]_vars

C18_Witness ==
  /\ Idle /\ trace = <<10, 20, 30, 40, 50>>
  /\ "A" \in DOMAIN arrays /\ arrays["A"] = <<0, 0>>
  /\ Prints(out) = <<Event("print", 0, <<>>)>>
  /\ Last(out) = Event("error_on_line", 50, <<>>)

\* RUN dispatches END; the loop test of RUN finds pc_idx past the last line
EndDispatched == Dispatches /\ CurCommand = <<"END">>
PastLastLine ==
  /\ stack # <<>> /\ Top(stack).k = "run"
  /\ Top(stack).pc >= Len(Top(stack).lines)
  /\ steps' = steps + 1

\* the frames under the run that ended are as they were, but for the
\* caller's pc_idx moving on
CallerResumes == stack' = Resume(Pop(stack))

C19_Step ==
  /\ EndDispatched =>
       /\ RunEnded /\ CallerResumes
       /\ trace' = Append(trace, CurLine)
       /\ UNCHANGED <<program, variables, arrays, out, disk>>
  /\ PastLastLine =>
       /\ RunEnded /\ CallerResumes
       /\ UNCHANGED <<program, variables, arrays, out, disk, trace>>
  /\ (trace' # trace /\ trace' # <<>>)
       => Dispatches /\ trace' = Append(trace, CurLine)

\* C19: during RUN, executing END halts the run immediately, so that no
\* line after it is executed, and stepping past the last stored line halts
\* the run silently, with no error reported; once halted, the run executes
\* nothing further.
C19_End == [][C19_Step]_vars

C19_Witness ==
  /\ Idle /\ trace # <<>> /\ Last(trace) = 30
  /\ KeySet(program) = {10, 20, 30, 40}
  /\ DictGet(program, 30) = <<"END">>
  /\ \A i \in 1..Len(trace) : trace[i] # 40
  /\ \A i \in 1..Len(out) : out[i].ev # "print"

\* a stored program whose lines are only PRINT, LET, DIM, END or unknown
\* commands
SimpleCommands == {<<"PRINT">>, <<"LET">>, <<"DIM">>, <<"END">>}
Simple(p) ==
  \A i \in 1..Len(p) :
    LET command == SplitCommand(Strip(p[i].code)).command
    IN  command \in SimpleCommands \/ command \notin KnownCommands

\* the last command is a RUN of a simple program; it is still running
SimpleRun ==
  /\ \/ mode = "repl" /\ LastCommand = <<"RUN">>
     \/ mode \in {"script_run", "exit"}
  /\ program # <<>> /\ Simple(program)
Running == SimpleRun /\ stack # <<>>

C20_Inv ==
  SimpleRun =>
    /\ program = entry
    /\ Len(stack) <= 1
    /\ Ascending(trace)
    /\ \A i \in 1..Len(trace) : trace[i] \in KeySet(program)
    /\ Len(trace) <= Cardinality(KeySet(program))
    /\ Running => /\ Top(stack).k = "run"
                  /\ Top(stack).lines = Sorted(Keys(program))
                  /\ Top(stack).pc = Len(trace)

C20_Step ==
  (Running /\ steps' = steps + 1) =>
    \/ stack' = <<>>
    \/ /\ Len(stack') = 1
       /\ Top(stack').pc = Top(stack).pc + 1
       /\ trace' = Append(trace, CurLine)

\* C20: RUN of any stored program whose lines contain only PRINT, LET, DIM,
\* END or unknown commands always terminates; while it runs the program
\* counter strictly increases, so each line is executed at most once and in
\* ascending line-number order, and the number of statements executed
\* never exceeds the number of stored lines.
C20_Terminates ==
  /\ []C20_Inv
  /\ [][C20_Step]_vars
  /\ Running ~> Idle

C20_Witness ==
  /\ SimpleRun /\ Idle
  /\ trace = <<5, 15, 20, 30>> /\ KeySet(program) = {5, 15, 20, 30}
  /\ Last(out) = Event("print", 4, <<>>)

====
